---- MODULE Spec2Model ----
(***************************************************************************)
(* A model of the weather MCP server (src/server.py): the transport helper *)
(* make_nws_request and the two tools get_alerts and get_forecast, run as  *)
(* coroutines that suspend at each awaited GET and may interleave.         *)
(*                                                                         *)
(* Python values: a value returned by response.json() is tagged, None is   *)
(* NoneValue and a JSON object is Dict(f) with f a function from its keys. *)
(* Inside a payload a JSON object is a function from its keys (an absent   *)
(* key is absent from the DOMAIN) and a JSON array is a sequence.          *)
(***************************************************************************)
EXTENDS Integers, Sequences, FiniteSets, TLC

VARIABLES inv, upstream, requests

vars == <<inv, upstream, requests>>

----------------------------------------------------------------------------
(* Bounds of the model *)

\* the number of tool invocations the host makes in one run
MaxInvocations == 2

\* the longest periods list upstream serves (the tool shows PeriodLimit of them)
MaxPeriods == 6

\* the longest features list upstream serves
MaxFeatures == 2

----------------------------------------------------------------------------
(* Program constants *)

NWS_API_BASE == "https://api.weather.gov"

USER_AGENT == "weather-app/1.0"

\* timeout=30.0 of client.get
GetTimeout == 30

\* periods[:5]
PeriodLimit == 5

----------------------------------------------------------------------------
(* Python values *)

NoneValue == [py |-> "None"]

Dict(f) == [py |-> "dict", items |-> f]

EmptyDict == [k \in {} |-> ""]

\* bool(v) of a value returned by make_nws_request: None and {} are falsy
Truthy(v) == v.py = "dict" /\ DOMAIN v.items # {}

\* d.get(k, default)
DictGet(d, k, default) == IF k \in DOMAIN d THEN d[k] ELSE default

\* the outcome of running a piece of code: a returned value or a raised exception
Return(v) == [kind |-> "return", value |-> v, exc |-> ""]

Raise(e) == [kind |-> "raise", value |-> NoneValue, exc |-> e]

Min(a, b) == IF a <= b THEN a ELSE b

----------------------------------------------------------------------------
(* Inputs of the tools *)

\* state codes the host passes, in the letter case it passes them
StateCodes == {"fl", "TX"}

\* str.upper() on the state codes
Upper(s) == CASE s = "fl" -> "FL" [] s = "TX" -> "TX" [] OTHER -> s

\* coordinates the host passes, floats in units of 1e-4 degree
Coordinates ==
    { [latitude |-> 377749, longitude |-> -1224194],
      [latitude |-> 407128, longitude |-> -740060] }

\* str(float) as an f-string formats it: 40.7128 and -74.0060 -> "-74.006"
FloatStr(x) ==
    CASE x = 377749 -> "37.7749"
      [] x = -1224194 -> "-122.4194"
      [] x = 407128 -> "40.7128"
      [] x = -740060 -> "-74.006"
      [] OTHER -> ToString(x)

----------------------------------------------------------------------------
(* Upstream: what a GET of a URL can bring back *)

\* client.get raised (no response)
NetFailure(e) == [exc |-> e, status |-> 0, parses |-> FALSE, json |-> NoneValue]

\* a response with a status code and a body that parses as JSON or does not
HttpResponse(status, parses, json) ==
    [exc |-> "", status |-> status, parses |-> parses, json |-> json]

Ok(json) == HttpResponse(200, TRUE, json)

\* a network error, a timeout, a non-2xx status, a body that is not JSON
FailedResponses ==
    { NetFailure("ConnectError"),
      NetFailure("ReadTimeout"),
      HttpResponse(404, TRUE, Dict([title |-> "Not Found"])),
      HttpResponse(200, FALSE, NoneValue) }

ForecastUrls ==
    { NWS_API_BASE \o "/gridpoints/MTR/85,105/forecast",
      NWS_API_BASE \o "/gridpoints/OKX/33,35/forecast" }

\* a feature of an alerts collection with every field of its properties present
FullFeature ==
    [ id |-> "urn:oid:2.49.0.1.840.0.1",
      properties |->
        [ event |-> "Winter Storm Warning",
          areaDesc |-> "Northern Mountains",
          severity |-> "Severe",
          description |-> "Heavy snow expected",
          instruction |-> "Avoid travel",
          headline |-> "Winter Storm Warning issued" ] ]

\* a feature whose properties lack areaDesc, description and instruction
SparseFeature ==
    [ id |-> "urn:oid:2.49.0.1.840.0.2",
      properties |-> [ event |-> "Flood Watch", severity |-> "Moderate" ] ]

\* a feature without a properties key
BareFeature == [ id |-> "urn:oid:2.49.0.1.840.0.3" ]

FeatureLists(features, maxLen) ==
    UNION { [1..n -> features] : n \in 1..maxLen }

\* payloads of GET /alerts/active/area/{state}
AlertPayloads(features, maxLen) ==
    { Dict(EmptyDict),
      Dict([type |-> "FeatureCollection"]),
      Dict([type |-> "FeatureCollection", features |-> <<>>]) }
    \cup { Dict([type |-> "FeatureCollection", features |-> fs]) :
             fs \in FeatureLists(features, maxLen) }

\* a well-formed forecast period, with upstream keys the tool does not read
Period(k) ==
    [ number |-> k,
      name |-> "Period " \o ToString(k),
      temperature |-> 60 + k,
      temperatureUnit |-> "F",
      windSpeed |-> ToString(k) \o " mph",
      windDirection |-> "NW",
      detailedForecast |-> "Forecast " \o ToString(k),
      isDaytime |-> TRUE ]

\* a period without windSpeed
BrokenPeriod(k) ==
    [ number |-> k,
      name |-> "Period " \o ToString(k),
      temperature |-> 60 + k,
      temperatureUnit |-> "F",
      windDirection |-> "NW",
      detailedForecast |-> "Forecast " \o ToString(k) ]

Ascending(n) == [k \in 1..n |-> Period(k)]

Descending(n) == [k \in 1..n |-> Period(n + 1 - k)]

\* Ascending(n) with the period at position j broken
BrokenAt(n, j) == [k \in 1..n |-> IF k = j THEN BrokenPeriod(k) ELSE Period(k)]

WellFormedPeriodLists(maxLen) ==
    { Ascending(n) : n \in 0..maxLen } \cup { Descending(maxLen) }

PeriodLists(maxLen) ==
    WellFormedPeriodLists(maxLen)
    \cup { BrokenAt(maxLen, 1), BrokenAt(maxLen, maxLen) }

\* payloads of GET {forecast_url}
ForecastPayloads(lists) ==
    { Dict(EmptyDict),
      Dict([type |-> "Feature"]),
      Dict([type |-> "Feature", properties |-> [units |-> "us"]]) }
    \cup { Dict([type |-> "Feature", properties |-> [units |-> "us", periods |-> ps]]) :
             ps \in lists }

\* payloads of GET /points/{lat},{lon}
PointsPayloads ==
    { Dict(EmptyDict),
      Dict([id |-> "point"]),
      Dict([id |-> "point", properties |-> [cwa |-> "MTR"]]) }
    \cup { Dict([id |-> "point", properties |-> [cwa |-> "MTR", forecast |-> u]]) :
             u \in ForecastUrls }

----------------------------------------------------------------------------
(* make_nws_request *)

\* the GETs one call of make_nws_request issues for invocation i: one client.get
GetRequests(i, url) ==
    << [ inv |-> i,
         url |-> url,
         headers |-> ("User-Agent" :> USER_AGENT) @@ ("Accept" :> "application/geo+json"),
         timeout |-> GetTimeout ] >>

\* the try block: client.get, raise_for_status, response.json
TryBlock(r) ==
    IF r.exc # "" THEN Raise(r.exc)
    ELSE IF r.status \notin 200..299 THEN Raise("HTTPStatusError")
    ELSE IF ~r.parses THEN Raise("JSONDecodeError")
    ELSE Return(r.json)

\* make_nws_request as it would be with "except httpx.HTTPError": the exception
\* of response.json() is not caught
ReturnCatchingHttpErrors(r) ==
    IF TryBlock(r).kind = "raise" /\ TryBlock(r).exc # "JSONDecodeError"
    THEN Return(NoneValue) ELSE TryBlock(r)

\* what make_nws_request hands its caller when the GET brings back r:
\* except Exception turns every exception of the try block into None
MakeNwsRequestReturn(r) ==
    IF TryBlock(r).kind = "raise" THEN Return(NoneValue) ELSE TryBlock(r)

----------------------------------------------------------------------------
(* get_alerts *)

AlertsUrl(state) == NWS_API_BASE \o "/alerts/active/area/" \o state

AlertsError == [error |-> "Unable to fetch alerts or no alerts found."]

\* the no-alerts result as it would be with the state echoed as given
NoAlertsResultAsGiven(state) ==
    [ state |-> state,
      alerts |-> <<>>,
      message |-> "No active alerts for this state." ]

NoAlertsResult(state) ==
    [ state |-> Upper(state),
      alerts |-> <<>>,
      message |-> "No active alerts for this state." ]

\* the alerts list as it would be if it were a module-level list, never reset:
\* what the get_alerts invocations that returned alerts have appended so far
AccumulatedAlerts ==
    LET returned == { j \in 1..Len(inv) :
                        /\ inv[j].tool = "get_alerts"
                        /\ inv[j].outcome.kind = "return"
                        /\ "alert_count" \in DOMAIN inv[j].outcome.value }
    IN IF returned = {} THEN <<>>
       ELSE inv[CHOOSE j \in returned :
                  \A m \in returned :
                     Len(inv[m].outcome.value.alerts) <= Len(inv[j].outcome.value.alerts)
               ].outcome.value.alerts

\* alerts = []
InitialAlerts == <<>>

\* the alert built from one feature's properties
AlertOf(props) ==
    [ event |-> DictGet(props, "event", "Unknown"),
      area |-> DictGet(props, "areaDesc", "Unknown"),
      severity |-> DictGet(props, "severity", "Unknown"),
      description |-> DictGet(props, "description", "No description available"),
      instructions |-> DictGet(props, "instruction", "No specific instructions provided") ]

AlertsResult(state, alerts) ==
    [ state |-> Upper(state),
      alerts |-> alerts,
      alert_count |-> Len(alerts),
      message |-> "Found " \o ToString(Len(alerts)) \o " active alert(s) for "
                    \o Upper(state) ]

\* the loop over data["features"]: feature["properties"] raises KeyError on the
\* first feature without that key
AlertsLoop(state, features) ==
    IF \E j \in 1..Len(features) : "properties" \notin DOMAIN features[j]
    THEN Raise("KeyError: 'properties'")
    ELSE Return(AlertsResult(state,
            InitialAlerts \o [j \in 1..Len(features) |-> AlertOf(features[j].properties)]))

\* get_alerts from the value make_nws_request returned to its end
GetAlertsBody(state, data) ==
    IF ~Truthy(data) \/ "features" \notin DOMAIN data.items
    THEN Return(AlertsError)
    ELSE IF Len(data.items.features) = 0
    THEN Return(NoAlertsResult(state))
    ELSE AlertsLoop(state, data.items.features)

----------------------------------------------------------------------------
(* get_forecast *)

PointsUrl(latitude, longitude) ==
    NWS_API_BASE \o "/points/" \o FloatStr(latitude) \o "," \o FloatStr(longitude)

PointsError == [error |-> "Unable to fetch forecast data for this location."]

\* the second error as it would be if it repeated the first
DetailErrorAsPoints == [error |-> "Unable to fetch forecast data for this location."]

DetailError == [error |-> "Unable to fetch detailed forecast."]

\* the forecast URL as it would be if it were built in place, not read from the
\* points payload
ForecastUrlBuilt(points_data) ==
    Return(NWS_API_BASE \o "/gridpoints/MTR/85,105/forecast")

\* points_data["properties"]["forecast"]
ForecastUrlOf(points_data) ==
    IF "properties" \notin DOMAIN points_data.items
    THEN Raise("KeyError: 'properties'")
    ELSE IF "forecast" \notin DOMAIN points_data.items.properties
    THEN Raise("KeyError: 'forecast'")
    ELSE Return(points_data.items.properties.forecast)

\* get_forecast between its two calls of make_nws_request: an outcome that ends
\* the invocation, or the URL of the second call
AfterPoints(points_data) ==
    IF ~Truthy(points_data)
    THEN [next |-> "end", outcome |-> Return(PointsError)]
    ELSE IF ForecastUrlOf(points_data).kind = "raise"
    THEN [next |-> "end", outcome |-> ForecastUrlOf(points_data)]
    ELSE [next |-> "call", outcome |-> ForecastUrlOf(points_data)]

\* the slice as it would be with an off-by-one limit, periods[:6]
ShownOneMore(periods) == SubSeq(periods, 1, Min(PeriodLimit + 1, Len(periods)))

\* periods[:5]
Shown(periods) == SubSeq(periods, 1, Min(PeriodLimit, Len(periods)))

PeriodKeys ==
    << "name", "temperature", "temperatureUnit", "windSpeed", "windDirection",
       "detailedForecast" >>

\* the first key of the dict literal that period lacks, 0 if it has them all
MissingKey(period) ==
    IF \A k \in 1..Len(PeriodKeys) : PeriodKeys[k] \in DOMAIN period THEN 0
    ELSE CHOOSE k \in 1..Len(PeriodKeys) :
            /\ PeriodKeys[k] \notin DOMAIN period
            /\ \A m \in 1..(k - 1) : PeriodKeys[m] \in DOMAIN period

ForecastPeriodOf(period) ==
    [ name |-> period.name,
      temperature |-> period.temperature,
      temperature_unit |-> period.temperatureUnit,
      wind_speed |-> period.windSpeed,
      wind_direction |-> period.windDirection,
      detailed_forecast |-> period.detailedForecast ]

ForecastResult(latitude, longitude, forecasts) ==
    [ location |-> [latitude |-> latitude, longitude |-> longitude],
      forecast_periods |-> forecasts,
      summary |-> "5-day forecast for coordinates " \o FloatStr(latitude) \o ", "
                    \o FloatStr(longitude) ]

\* the loop over periods[:5]: a period without one of the keys raises KeyError
ForecastLoop(latitude, longitude, periods) ==
    IF \E j \in 1..Len(Shown(periods)) : MissingKey(Shown(periods)[j]) # 0
    THEN LET j == CHOOSE j \in 1..Len(Shown(periods)) :
                    /\ MissingKey(Shown(periods)[j]) # 0
                    /\ \A m \in 1..(j - 1) : MissingKey(Shown(periods)[m]) = 0
         IN Raise("KeyError: '" \o PeriodKeys[MissingKey(Shown(periods)[j])] \o "'")
    ELSE Return(ForecastResult(latitude, longitude,
            [j \in 1..Len(Shown(periods)) |-> ForecastPeriodOf(Shown(periods)[j])]))

\* get_forecast from the value its second make_nws_request returned to its end
GetForecastBody(latitude, longitude, forecast_data) ==
    IF ~Truthy(forecast_data)
    THEN Return(DetailError)
    ELSE IF "properties" \notin DOMAIN forecast_data.items
    THEN Raise("KeyError: 'properties'")
    ELSE IF "periods" \notin DOMAIN forecast_data.items.properties
    THEN Raise("KeyError: 'periods'")
    ELSE ForecastLoop(latitude, longitude, forecast_data.items.properties.periods)

----------------------------------------------------------------------------
(* The coroutines.  inv[i] is the i-th invocation the host made: its tool and *)
(* arguments, where it is suspended (pc), the calls of make_nws_request it    *)
(* has made (the last one pending while it awaits a GET), and its outcome.    *)
(* requests is the log of the GETs issued.  upstream is the snapshot of the   *)
(* weather service seen so far: what a GET of each URL brings back, fixed by  *)
(* the first GET of that URL.                                                 *)

Pending == [kind |-> "pending", value |-> NoneValue, exc |-> ""]

\* a call of make_nws_request(url) suspended in client.get
PendingCall(url) == [url |-> url, done |-> FALSE, ret |-> Pending]

\* the URL whose response resumes invocation i: the one its own client asked for
AwaitedUrl(i) == inv[i].calls[Len(inv[i].calls)].url

\* the GET of url brings back r, as the snapshot has it
Answers(url, r) ==
    /\ url \in DOMAIN upstream => r = upstream[url]
    /\ upstream' = IF url \in DOMAIN upstream THEN upstream ELSE upstream @@ (url :> r)

\* the pending call of invocation i returns ret
CallReturned(i, ret) ==
    [inv[i].calls EXCEPT ![Len(inv[i].calls)] = [@ EXCEPT !.done = TRUE, !.ret = ret]]

Init ==
    /\ inv = <<>>
    /\ upstream = <<>>
    /\ requests = <<>>

\* the host calls get_alerts(state); the coroutine runs to its first await
InvokeAlerts(state) ==
    /\ Len(inv) < MaxInvocations
    /\ inv' = Append(inv,
          [ tool |-> "get_alerts",
            args |-> [state |-> state],
            pc |-> "await_alerts",
            calls |-> << PendingCall(AlertsUrl(state)) >>,
            outcome |-> Pending ])
    /\ requests' = requests \o GetRequests(Len(inv) + 1, AlertsUrl(state))
    /\ UNCHANGED upstream

\* the GET of the alerts URL brings back r; get_alerts runs to its end
AlertsResume(i, r) ==
    /\ inv[i].pc = "await_alerts"
    /\ Answers(AwaitedUrl(i), r)
    /\ LET ret == MakeNwsRequestReturn(r)
           outcome == IF ret.kind = "raise" THEN ret
                      ELSE GetAlertsBody(inv[i].args.state, ret.value)
       IN inv' = [inv EXCEPT ![i] = [@ EXCEPT !.pc = "done",
                                               !.calls = CallReturned(i, ret),
                                               !.outcome = outcome]]
    /\ UNCHANGED requests

\* the host calls get_forecast(latitude, longitude); the coroutine runs to its
\* first await
InvokeForecast(latitude, longitude) ==
    /\ Len(inv) < MaxInvocations
    /\ inv' = Append(inv,
          [ tool |-> "get_forecast",
            args |-> [latitude |-> latitude, longitude |-> longitude],
            pc |-> "await_points",
            calls |-> << PendingCall(PointsUrl(latitude, longitude)) >>,
            outcome |-> Pending ])
    /\ requests' = requests \o GetRequests(Len(inv) + 1, PointsUrl(latitude, longitude))
    /\ UNCHANGED upstream

\* the GET of the points URL brings back r; get_forecast runs to its end or to
\* its second await
PointsResume(i, r) ==
    /\ inv[i].pc = "await_points"
    /\ Answers(AwaitedUrl(i), r)
    /\ LET ret == MakeNwsRequestReturn(r)
           step == IF ret.kind = "raise" THEN [next |-> "end", outcome |-> ret]
                   ELSE AfterPoints(ret.value)
       IN IF step.next = "end"
          THEN /\ inv' = [inv EXCEPT ![i] = [@ EXCEPT !.pc = "done",
                                                      !.calls = CallReturned(i, ret),
                                                      !.outcome = step.outcome]]
               /\ UNCHANGED requests
          ELSE /\ inv' = [inv EXCEPT ![i] =
                            [@ EXCEPT !.pc = "await_forecast",
                                      !.calls = Append(CallReturned(i, ret),
                                                       PendingCall(step.outcome.value))]]
               /\ requests' = requests \o GetRequests(i, step.outcome.value)

\* the GET of the forecast URL brings back r; get_forecast runs to its end
DetailResume(i, r) ==
    /\ inv[i].pc = "await_forecast"
    /\ Answers(AwaitedUrl(i), r)
    /\ LET ret == MakeNwsRequestReturn(r)
           outcome == IF ret.kind = "raise" THEN ret
                      ELSE GetForecastBody(inv[i].args.latitude, inv[i].args.longitude,
                                           ret.value)
       IN inv' = [inv EXCEPT ![i] = [@ EXCEPT !.pc = "done",
                                               !.calls = CallReturned(i, ret),
                                               !.outcome = outcome]]
    /\ UNCHANGED requests

Invocations == 1..Len(inv)

----------------------------------------------------------------------------
(* The alert tool alone, against every alerts payload within the bounds *)

AlertResponses ==
    FailedResponses
    \cup { Ok(p) : p \in AlertPayloads({FullFeature, SparseFeature, BareFeature},
                                       MaxFeatures) }

NextAlerts ==
    \/ \E state \in StateCodes : InvokeAlerts(state)
    \/ \E i \in Invocations : \E r \in AlertResponses : AlertsResume(i, r)

SpecAlerts == Init /\ [][NextAlerts]_vars

----------------------------------------------------------------------------
(* The forecast tool alone, against every points and forecast payload within *)
(* the bounds                                                                *)

PointsResponses == FailedResponses \cup { Ok(p) : p \in PointsPayloads }

DetailResponses ==
    FailedResponses \cup { Ok(p) : p \in ForecastPayloads(PeriodLists(MaxPeriods)) }

NextForecast ==
    \/ \E c \in Coordinates : InvokeForecast(c.latitude, c.longitude)
    \/ \E i \in Invocations : \E r \in PointsResponses : PointsResume(i, r)
    \/ \E i \in Invocations : \E r \in DetailResponses : DetailResume(i, r)

SpecForecast == Init /\ [][NextForecast]_vars

----------------------------------------------------------------------------
(* The server: the host invokes both tools, one invocation after another or  *)
(* several at once, against a snapshot drawn from a few responses per URL    *)

ServedAlertResponses ==
    { NetFailure("ReadTimeout"),
      Ok(Dict([type |-> "FeatureCollection", features |-> <<>>])),
      Ok(Dict([type |-> "FeatureCollection", features |-> <<FullFeature, SparseFeature>>])),
      Ok(Dict([type |-> "FeatureCollection", features |-> <<BareFeature>>])) }

ServedPointsResponses ==
    { NetFailure("ConnectError"),
      Ok(Dict([id |-> "point", properties |-> [cwa |-> "MTR"]])) }
    \cup { Ok(Dict([id |-> "point", properties |-> [cwa |-> "MTR", forecast |-> u]])) :
             u \in ForecastUrls }

ServedDetailResponses ==
    { HttpResponse(404, TRUE, Dict([title |-> "Not Found"])) }
    \cup { Ok(p) : p \in ForecastPayloads({Ascending(1), Descending(MaxPeriods)}) }

Next ==
    \/ \E state \in StateCodes : InvokeAlerts(state)
    \/ \E c \in Coordinates : InvokeForecast(c.latitude, c.longitude)
    \/ \E i \in Invocations : \E r \in ServedAlertResponses : AlertsResume(i, r)
    \/ \E i \in Invocations : \E r \in ServedPointsResponses : PointsResume(i, r)
    \/ \E i \in Invocations : \E r \in ServedDetailResponses : DetailResume(i, r)

Spec == Init /\ [][Next]_vars

----------------------------------------------------------------------------
(* What the claims speak of *)

IsDone(i) == inv[i].pc = "done"

\* the GETs invocation i issued, in the order it issued them
RequestsOf(i) == SelectSeq(requests, LAMBDA q : q.inv = i)

\* the GET brought back a 2xx response whose body parses
Succeeded(r) == r.exc = "" /\ r.status >= 200 /\ r.status < 300 /\ r.parses

\* what the c-th GET of invocation i brought back (once that call is done)
ResponseOf(i, c) == upstream[inv[i].calls[c].url]

HasKeys(d, keys) == \A k \in keys : k \in DOMAIN d

\* a forecast payload whose properties.periods is a list of well-formed periods
HasWellFormedPeriods(json) ==
    /\ json.py = "dict"
    /\ "properties" \in DOMAIN json.items
    /\ "periods" \in DOMAIN json.items.properties
    /\ \A k \in 1..Len(json.items.properties.periods) :
          HasKeys(json.items.properties.periods[k],
                  {"name", "temperature", "temperatureUnit", "windSpeed",
                   "windDirection", "detailedForecast"})

\* the field-renamed image of an upstream period
RenamedImage(p) ==
    [ name |-> p.name,
      temperature |-> p.temperature,
      temperature_unit |-> p.temperatureUnit,
      wind_speed |-> p.windSpeed,
      wind_direction |-> p.windDirection,
      detailed_forecast |-> p.detailedForecast ]

\* a get_forecast invocation whose two GETs both succeeded, the second one with
\* a list of well-formed periods
ForecastServed(i) ==
    /\ inv[i].tool = "get_forecast"
    /\ IsDone(i)
    /\ Len(inv[i].calls) = 2
    /\ Succeeded(ResponseOf(i, 1))
    /\ Succeeded(ResponseOf(i, 2))
    /\ HasWellFormedPeriods(ResponseOf(i, 2).json)

UpstreamPeriods(i) == ResponseOf(i, 2).json.items.properties.periods

\* C1: when both GETs of a get_forecast succeed and the forecast payload holds n
\* well-formed periods, the tool returns forecast_periods of length min(5, n),
\* the i-th being the renamed image of the i-th upstream period.
C1_FirstFivePeriodsInOrder ==
    \A i \in Invocations :
        ForecastServed(i) =>
            /\ inv[i].outcome.kind = "return"
            /\ "forecast_periods" \in DOMAIN inv[i].outcome.value
            /\ LET shown == inv[i].outcome.value.forecast_periods
                   n == Len(UpstreamPeriods(i))
               IN /\ Len(shown) = (IF n < 5 THEN n ELSE 5)
                  /\ \A k \in 1..Len(shown) : shown[k] = RenamedImage(UpstreamPeriods(i)[k])

\* C1 witness: a served forecast whose upstream list is longer than five and
\* not in ascending order of period number
C1_Witness ==
    \E i \in Invocations :
        /\ ForecastServed(i)
        /\ Len(UpstreamPeriods(i)) > 5
        /\ UpstreamPeriods(i)[1].number > UpstreamPeriods(i)[2].number
        /\ inv[i].outcome.kind = "return"

\* a get_alerts invocation whose GET succeeded with a payload that has a
\* features list
AlertsServed(i) ==
    /\ inv[i].tool = "get_alerts"
    /\ IsDone(i)
    /\ Succeeded(ResponseOf(i, 1))
    /\ ResponseOf(i, 1).json.py = "dict"
    /\ "features" \in DOMAIN ResponseOf(i, 1).json.items

UpstreamFeatures(i) == ResponseOf(i, 1).json.items.features

\* the properties of a feature, none when the feature has no properties key
PropertiesOf(feature) ==
    IF "properties" \in DOMAIN feature THEN feature.properties ELSE EmptyDict

\* the alert record the specification asks for: the upstream value of each field
\* that is present, its fixed default otherwise
ExpectedAlert(feature) ==
    LET props == PropertiesOf(feature)
        field(k, default) == IF k \in DOMAIN props THEN props[k] ELSE default
    IN [ event |-> field("event", "Unknown"),
         area |-> field("areaDesc", "Unknown"),
         severity |-> field("severity", "Unknown"),
         description |-> field("description", "No description available"),
         instructions |-> field("instruction", "No specific instructions provided") ]

\* C2: for every alerts payload with N > 0 features, get_alerts returns N alert
\* records in upstream order with alert_count N, each field carrying the
\* upstream value when present and its default when absent.
C2_EveryFeatureBecomesAnAlert ==
    \A i \in Invocations :
        (AlertsServed(i) /\ Len(UpstreamFeatures(i)) > 0) =>
            /\ inv[i].outcome.kind = "return"
            /\ HasKeys(inv[i].outcome.value, {"alerts", "alert_count"})
            /\ inv[i].outcome.value.alert_count = Len(UpstreamFeatures(i))
            /\ Len(inv[i].outcome.value.alerts) = Len(UpstreamFeatures(i))
            /\ \A k \in 1..Len(UpstreamFeatures(i)) :
                  inv[i].outcome.value.alerts[k] = ExpectedAlert(UpstreamFeatures(i)[k])

\* C3: when the GET succeeds and the features list is empty, get_alerts returns
\* a result without an error field, with the upper-cased state, an empty alerts
\* list and the message "No active alerts for this state.".
C3_NoAlertsResult ==
    \A i \in Invocations :
        (AlertsServed(i) /\ Len(UpstreamFeatures(i)) = 0) =>
            /\ inv[i].outcome.kind = "return"
            /\ "error" \notin DOMAIN inv[i].outcome.value
            /\ HasKeys(inv[i].outcome.value, {"state", "alerts", "message"})
            /\ inv[i].outcome.value.state =
                  (IF inv[i].args.state = "fl" THEN "FL" ELSE "TX")
            /\ inv[i].outcome.value.alerts = <<>>
            /\ inv[i].outcome.value.message = "No active alerts for this state."

\* C3 witness: a lower-case state code answered with an empty features list
C3_Witness ==
    \E i \in Invocations :
        /\ AlertsServed(i)
        /\ Len(UpstreamFeatures(i)) = 0
        /\ inv[i].args.state = "fl"
        /\ inv[i].outcome.kind = "return"

\* a get_forecast invocation ended by the failure of its points GET
PointsFailed(i) ==
    /\ inv[i].tool = "get_forecast"
    /\ IsDone(i)
    /\ Len(inv[i].calls) = 1
    /\ ~Succeeded(ResponseOf(i, 1))

\* a get_forecast invocation whose points GET succeeded and whose forecast GET
\* failed
DetailFailed(i) ==
    /\ inv[i].tool = "get_forecast"
    /\ IsDone(i)
    /\ Len(inv[i].calls) = 2
    /\ Succeeded(ResponseOf(i, 1))
    /\ ~Succeeded(ResponseOf(i, 2))

IsErrorResult(outcome) ==
    /\ outcome.kind = "return"
    /\ "error" \in DOMAIN outcome.value
    /\ "forecast_periods" \notin DOMAIN outcome.value

\* C4: the error get_forecast returns when the points GET fails differs from the
\* one it returns when the forecast GET fails; both carry an error field and no
\* forecast_periods.
C4_ErrorPathsDistinct ==
    \A i, j \in Invocations :
        (PointsFailed(i) /\ DetailFailed(j)) =>
            /\ IsErrorResult(inv[i].outcome)
            /\ IsErrorResult(inv[j].outcome)
            /\ inv[i].outcome.value # inv[j].outcome.value

\* C4 witness: one run in which both error paths were taken
C4_Witness ==
    \E i, j \in Invocations : PointsFailed(i) /\ DetailFailed(j)

\* C5: when the points GET succeeds with a non-empty payload that lacks a
\* forecast URL, get_forecast ends by returning an error result, never by a
\* fault.
C5_MissingForecastUrlIsAnError ==
    \A i \in Invocations :
        ( /\ inv[i].tool = "get_forecast"
          /\ IsDone(i)
          /\ Succeeded(ResponseOf(i, 1))
          /\ Truthy(ResponseOf(i, 1).json)
          /\ \/ "properties" \notin DOMAIN ResponseOf(i, 1).json.items
             \/ "forecast" \notin DOMAIN ResponseOf(i, 1).json.items.properties ) =>
            /\ inv[i].outcome.kind = "return"
            /\ "error" \in DOMAIN inv[i].outcome.value

\* C6: every call of make_nws_request issues exactly one GET, of its URL, and
\* returns without raising: the parsed payload when the GET succeeded, None on a
\* network error, a timeout, a non-2xx status or a body that does not parse.
C6_OneGetAndNoRaise ==
    \A i \in Invocations :
        /\ Len(RequestsOf(i)) = Len(inv[i].calls)
        /\ \A c \in 1..Len(inv[i].calls) :
              /\ RequestsOf(i)[c].url = inv[i].calls[c].url
              /\ inv[i].calls[c].done =>
                    /\ inv[i].calls[c].ret.kind = "return"
                    /\ inv[i].calls[c].ret.value =
                          (IF Succeeded(ResponseOf(i, c))
                           THEN ResponseOf(i, c).json ELSE NoneValue)

\* C6 witness: an invocation whose first call returned a payload and whose
\* second call met a body that does not parse
C6_Witness ==
    \E i \in Invocations :
        /\ Len(inv[i].calls) = 2
        /\ inv[i].calls[2].done
        /\ Succeeded(ResponseOf(i, 1))
        /\ ResponseOf(i, 2).exc = ""
        /\ ResponseOf(i, 2).status = 200
        /\ ~ResponseOf(i, 2).parses
        /\ inv[i].calls[2].ret = Return(NoneValue)

\* C7: whatever payload the transport helper returns, features without a
\* properties key included, get_alerts ends by returning a completed result (a
\* success record or a result with an error field), never by a fault.
C7_AlertsNeverFault ==
    \A i \in Invocations :
        (inv[i].tool = "get_alerts" /\ IsDone(i)) =>
            /\ inv[i].outcome.kind = "return"
            /\ \/ "error" \in DOMAIN inv[i].outcome.value
               \/ HasKeys(inv[i].outcome.value, {"state", "alerts", "message"})

\* what the snapshot holds for url; a URL never fetched has no entry
Snapshot(url) ==
    IF url \in DOMAIN upstream THEN upstream[url] ELSE NetFailure("never fetched")

\* get_alerts(state) run on its own against the snapshot
AloneAlerts(state) ==
    GetAlertsBody(state, MakeNwsRequestReturn(Snapshot(AlertsUrl(state))).value)

\* get_forecast(latitude, longitude) run on its own against the snapshot
AloneForecast(latitude, longitude) ==
    LET step == AfterPoints(
                  MakeNwsRequestReturn(Snapshot(PointsUrl(latitude, longitude))).value)
    IN IF step.next = "end" THEN step.outcome
       ELSE GetForecastBody(latitude, longitude,
                            MakeNwsRequestReturn(Snapshot(step.outcome.value)).value)

Alone(i) ==
    IF inv[i].tool = "get_alerts" THEN AloneAlerts(inv[i].args.state)
    ELSE AloneForecast(inv[i].args.latitude, inv[i].args.longitude)

SameInput(i, j) == inv[i].tool = inv[j].tool /\ inv[i].args = inv[j].args

\* C8: against a fixed upstream snapshot, every invocation, whatever ran before
\* it or beside it, ends as it would have ended run alone with the same input,
\* and two invocations with the same input end alike.
C8_InvocationsIndependent ==
    /\ \A i \in Invocations : IsDone(i) => inv[i].outcome = Alone(i)
    /\ \A i, j \in Invocations :
          (IsDone(i) /\ IsDone(j) /\ SameInput(i, j)) => inv[i].outcome = inv[j].outcome

\* C8 witness: two get_forecast invocations with the same input that ran
\* interleaved (the second one started between the two GETs of the first) and
\* both returned a forecast, beside which the snapshot holds alerts as well
C8_Witness ==
    /\ Len(inv) >= 2
    /\ SameInput(1, 2)
    /\ IsDone(1)
    /\ IsDone(2)
    /\ inv[1].tool = "get_forecast"
    /\ inv[1].outcome.kind = "return"
    /\ "forecast_periods" \in DOMAIN inv[1].outcome.value
    /\ Len(requests) >= 3
    /\ requests[1].inv = 1
    /\ requests[2].inv = 2
    /\ requests[3].inv = 1

\* C10: get_alerts issues exactly one GET.  get_forecast issues its points GET
\* first and at most one more: the second GET is there only once the points
\* call has returned data, it goes to the URL in that payload's
\* properties.forecast, and no GET follows a call that returned no data.
C10_RequestsSequentialAndDependent ==
    \A i \in Invocations :
        LET reqs == RequestsOf(i)
        IN IF inv[i].tool = "get_alerts"
           THEN Len(reqs) = 1 /\ reqs[1].url = AlertsUrl(inv[i].args.state)
           ELSE /\ Len(reqs) \in {1, 2}
                /\ reqs[1].url = PointsUrl(inv[i].args.latitude, inv[i].args.longitude)
                /\ Len(reqs) = 2 =>
                      /\ inv[i].calls[1].done
                      /\ Succeeded(ResponseOf(i, 1))
                      /\ Truthy(ResponseOf(i, 1).json)
                      /\ "properties" \in DOMAIN ResponseOf(i, 1).json.items
                      /\ "forecast" \in DOMAIN ResponseOf(i, 1).json.items.properties
                      /\ reqs[2].url = ResponseOf(i, 1).json.items.properties.forecast
                /\ (inv[i].calls[1].done /\ ~Succeeded(ResponseOf(i, 1))) => Len(reqs) = 1
                /\ IsDone(i) => Len(reqs) = Len(inv[i].calls)

\* C10 witness: a get_forecast that ended after two GETs, the second one to the
\* OKX grid URL its points payload named, beside a get_alerts with its one GET
C10_Witness ==
    \E i, j \in Invocations :
        /\ inv[i].tool = "get_forecast"
        /\ IsDone(i)
        /\ Len(RequestsOf(i)) = 2
        /\ RequestsOf(i)[2].url = NWS_API_BASE \o "/gridpoints/OKX/33,35/forecast"
        /\ inv[j].tool = "get_alerts"
        /\ IsDone(j)

====
